---- MODULE Spec2Model ----
(***************************************************************************)
(* Model of list_latest_installs.py: the bundle locator, the two metadata  *)
(* readers, the filter/sort step, the reporter and main.                   *)
(*                                                                         *)
(* Time is counted in hours.  A string is a sequence of tokens; the tokens *)
(* "http://", "https://", ";", " " and ".app" stand for themselves and any *)
(* other token for text without those characters.  A path is the sequence  *)
(* of its component names, a name is a string.                             *)
(***************************************************************************)
EXTENDS Integers, Sequences, FiniteSets, TLC

VARIABLES fs, argv, file, pc, rootIdx, pending, app_path, proc, added, results,
          report_lines, out, err, exit,
          wf_in, q_in, src_out, src_pc

vars == <<fs, argv, file, pc, rootIdx, pending, app_path, proc, added, results,
          report_lines, out, err, exit, wf_in, q_in, src_out, src_pc>>

mainVars == <<fs, argv, file, pc, rootIdx, pending, app_path, proc, added, results,
              report_lines, out, err, exit>>
srcVars == <<wf_in, q_in, src_out, src_pc>>

----------------------------------------------------------------------------
(* Bounds *)

\* at most this many paths of the file system match the glob "*.app"
MaxBundles == 2
\* added-timestamps lie at most this many hours before or after the cutoff
MaxAge == 1
\* longest quarantine attribute value, in tokens
MaxQLen == 5
\* longest where-from list
MaxWF == 2

----------------------------------------------------------------------------
(* Values *)

None == [tag |-> "None"]
Str(s) == [tag |-> "str", val |-> s]
NL == [tag |-> "NL"]

LOOKBACK_DAYS == 14
HoursPerDay == 24
\* datetime.datetime.now(datetime.timezone.utc), in hours
Clock == 1000
\* UTC offset of the local system timezone, in hours
LocalOff == 2

Cutoff == Clock - LOOKBACK_DAYS * HoursPerDay

----------------------------------------------------------------------------
(* Paths (pathlib) *)

Last(s) == s[Len(s)]
IsProperPrefix(p, q) == Len(p) < Len(q) /\ SubSeq(q, 1, Len(p)) = p

\* PurePath.name: the final component, "" for the root "/"
PathName(p) == IF p = <<>> THEN <<>> ELSE Last(p)

\* PurePath.suffix: the text from the last dot of the name on, unless that
\* dot is the first character of the name.  The only dotted token is ".app".
suffix(p) ==
    LET n == PathName(p)
    IN  IF Len(n) >= 2 /\ Last(n) = ".app" THEN <<".app">> ELSE <<>>

\* PurePath.parents: every proper ancestor, the root "/" included
parents(p) == {SubSeq(p, 1, k) : k \in 0..(Len(p) - 1)}

\* fnmatch of a name against "*.app": the name ends with ".app"
GlobMatch(n) == Len(n) >= 1 /\ Last(n) = ".app"

\* root.rglob("*.app"): every path below root whose name matches
rglob(root, files) ==
    {p \in files : IsProperPrefix(root, p) /\ GlobMatch(PathName(p))}

iter_app_bundles(root, files) ==
    {p \in rglob(root, files) :
        ~ \E parent \in parents(p) : suffix(parent) = <<".app">>}

Applications == <<"Applications">>
Root1 == <<Applications>>
Utilities == <<"Utilities">>
Users == <<"Users">>
Home == <<"u">>
Root2 == <<Applications, Utilities>>
Root3 == <<Users, Home, Applications>>
ROOTS == <<Root1, Root2, Root3>>

AApp == Root1 \o << <<"A", ".app">> >>
AContents == AApp \o << <<"Contents">> >>
HApp == AContents \o << <<"H", ".app">> >>
DotApp == Root1 \o << <<".app">> >>
XApp == DotApp \o << <<"X", ".app">> >>
TApp == Root2 \o << <<"T", ".app">> >>
BApp == Root3 \o << <<"B", ".app">> >>

\* the paths a file system of the model may contain
Universe == {Root1, Root2, Root3, AApp, AContents, HApp, DotApp, XApp, TApp, BApp}

\* a file system holds the parent directory of everything it holds
FileSystems ==
    {S \in SUBSET Universe :
        /\ \A p \in S : \A q \in Universe : IsProperPrefix(q, p) => q \in S
        /\ Cardinality({p \in S : GlobMatch(PathName(p))}) <= MaxBundles}

----------------------------------------------------------------------------
(* Added timestamp (mdls) *)

\* the text mdls prints: a date with a UTC offset, a date without one, or
\* text that is no date at all
Txt(kind) == [kind |-> kind, wall |-> 0, off |-> 0]
DateTxt(w, o) == [kind |-> "date", wall |-> w, off |-> o]
NaiveTxt(w) == [kind |-> "naive", wall |-> w, off |-> 0]

\* dates in UTC around the cutoff, one date east of UTC whose wall-clock
\* reading is the cutoff's and one west of UTC whose instant is the cutoff
Dates ==
    {DateTxt(Cutoff + d, 0) : d \in (0 - MaxAge)..MaxAge}
    \cup {DateTxt(Cutoff, 1), DateTxt(Cutoff - 1, 0 - 1)}

\* what the mdls process may answer for a path: exit code and standard output
MdlsOutputs ==
    {[rc |-> 0, out |-> t] :
        t \in Dates \cup {Txt("empty"), Txt("blank"), Txt("null"),
                          Txt("garbage"), NaiveTxt(Clock)}}
    \cup {[rc |-> 1, out |-> Txt("empty")], [rc |-> 1, out |-> DateTxt(Clock, 0)]}

\* str.strip() of the output: text of white space only becomes empty
strip_out(t) == IF t.kind = "blank" THEN Txt("empty") ELSE t

strptime_naive(t) ==
    IF t.kind = "date"
    THEN [tag |-> "dt", wall |-> t.wall, off |-> t.off, aware |-> TRUE]
    ELSE IF t.kind = "naive"
         THEN [tag |-> "dt", wall |-> t.wall, off |-> 0, aware |-> FALSE]
         ELSE None

\* strptime(date_str, "%Y-%m-%d %H:%M:%S %z"); None stands for ValueError
strptime(t) ==
    IF t.kind = "date"
    THEN [tag |-> "dt", wall |-> t.wall, off |-> t.off, aware |-> TRUE]
    ELSE None

get_date_added_norc(raw) ==
    LET date_str == strip_out(raw.out)
    IN  IF date_str.kind = "empty" \/ date_str.kind = "null"
        THEN None
        ELSE strptime(date_str)

get_date_added(raw) ==
    IF raw.rc # 0
    THEN None
    ELSE LET date_str == strip_out(raw.out)
         IN  IF date_str.kind = "empty" \/ date_str.kind = "null"
             THEN None
             ELSE strptime(date_str)

\* datetime.astimezone(timezone.utc) as an instant; a naive value is taken
\* to be local time
astimezone_utc(dt) == IF dt.aware THEN dt.wall - dt.off ELSE dt.wall - LocalOff

\* datetime.astimezone(local_tz): the wall-clock reading in the local zone
astimezone_local(dt) == astimezone_utc(dt) + LocalOff

TooOld_strict(dt, cutoff) == astimezone_utc(dt) <= cutoff

\* the filter of gather_latest_installs: added.astimezone(utc) < cutoff
TooOld(dt, cutoff) == astimezone_utc(dt) < cutoff

----------------------------------------------------------------------------
(* Download source (xattr) *)

IntV == [tag |-> "int", val |-> <<>>]

startswith_http(s) == Len(s) >= 1 /\ s[1] \in {"http://", "https://"}

\* the truth value of an Optional[str]
Truthy(x) == x.tag = "str" /\ x.val # <<>>

RECURSIVE first_url(_)
\* the loop over a where-from list: the first str entry that is a URL
first_url(values) ==
    IF values = <<>> THEN None
    ELSE IF Head(values).tag = "str" /\ startswith_http(Head(values).val)
         THEN Str(Head(values).val)
         ELSE first_url(Tail(values))

\* the bytes xattr prints for the where-from attribute, as plistlib reads
\* them: nothing, no property list, a list, a string or another value
WfOut(kind, items, val) == [kind |-> kind, items |-> items, val |-> val]

get_where_froms(raw) ==
    IF raw.rc # 0 \/ raw.out.kind = "empty" THEN None
    ELSE IF raw.out.kind = "bad" THEN None
    ELSE IF raw.out.kind = "list" THEN first_url(raw.out.items)
    ELSE IF raw.out.kind = "str" /\ startswith_http(raw.out.val)
         THEN Str(raw.out.val)
         ELSE None

RECURSIVE lstrip(_)
lstrip(s) == IF s # <<>> /\ Head(s) = " " THEN lstrip(Tail(s)) ELSE s

RECURSIVE rstrip(_)
rstrip(s) ==
    IF s # <<>> /\ Last(s) = " " THEN rstrip(SubSeq(s, 1, Len(s) - 1)) ELSE s

\* str.strip()
strip(s) == rstrip(lstrip(s))

RECURSIVE split(_, _)
\* str.split(sep)
split(s, sep) ==
    IF \E i \in 1..Len(s) : s[i] = sep
    THEN LET i == CHOOSE k \in 1..Len(s) :
                      s[k] = sep /\ \A j \in 1..(k - 1) : s[j] # sep
         IN  <<SubSeq(s, 1, i - 1)>> \o split(SubSeq(s, i + 1, Len(s)), sep)
    ELSE <<s>>

get_quarantine_source_anylen(raw) ==
    IF raw.rc # 0 THEN None
    ELSE LET value == strip(raw.out)
         IN  IF value = <<>> THEN None
             ELSE LET parts == split(value, ";")
                      url == strip(Last(parts))
                  IN  IF startswith_http(url) THEN Str(url) ELSE None

get_quarantine_source(raw) ==
    IF raw.rc # 0 THEN None
    ELSE LET value == strip(raw.out)
         IN  IF value = <<>> THEN None
             ELSE LET parts == split(value, ";")
                  IN  IF Len(parts) >= 4
                      THEN LET url == strip(Last(parts))
                           IN  IF startswith_http(url) THEN Str(url) ELSE None
                      ELSE None

get_download_source(wf, q) ==
    LET where_froms == get_where_froms(wf)
    IN  IF Truthy(where_froms) THEN where_froms ELSE get_quarantine_source(q)

\* inputs of the source lookups
QTokens == {"http://", "https://", "x", ";", " "}
QStrings == UNION {[1..n -> QTokens] : n \in 0..MaxQLen}
QInputs ==
    {[rc |-> 0, out |-> s] : s \in QStrings}
    \cup {[rc |-> 1, out |-> <<>>], [rc |-> 1, out |-> <<";", ";", ";", "http://">>]}

WfStrings == {<<"http://", "x">>, <<"https://", "x">>, <<"x">>}
WfItems == {Str(s) : s \in WfStrings} \cup {IntV}
WfLists == UNION {[1..n -> WfItems] : n \in 0..MaxWF}
WfInputs ==
    {[rc |-> 0, out |-> WfOut("list", l, <<>>)] : l \in WfLists}
    \cup {[rc |-> 0, out |-> WfOut("str", <<>>, s)] : s \in WfStrings}
    \cup {[rc |-> 0, out |-> WfOut(k, <<>>, <<>>)] : k \in {"empty", "bad", "other"}}
    \cup {[rc |-> 1, out |-> WfOut("empty", <<>>, <<>>)],
          [rc |-> 1, out |-> WfOut("str", <<>>, <<"http://", "x">>)]}

NoAttr == [rc |-> 1, out |-> <<>>]
NoWf == [rc |-> 1, out |-> WfOut("empty", <<>>, <<>>)]

\* the attribute pairs a bundle of the pipeline may carry: none, a
\* where-from list, a quarantine record
XattrCases ==
    {[wf |-> NoWf, q |-> NoAttr],
     [wf |-> [rc |-> 0, out |-> WfOut("list", <<Str(<<"x">>), Str(<<"https://", "x">>)>>, <<>>)],
      q |-> NoAttr],
     [wf |-> NoWf,
      q |-> [rc |-> 0, out |-> <<"x", ";", "x", ";", "x", ";", " ", "https://", "x">>]]}

----------------------------------------------------------------------------
(* Filter, sort and report *)

Record(date_added, path, source) ==
    [added |-> date_added, path |-> path, source |-> source]

\* one pass of the loop body of gather_latest_installs over app_path, given
\* the answers of the external tools
gather_step(res, path, raw, xa) ==
    LET date_added == get_date_added(raw)
    IN  IF date_added.tag = "None" THEN res
        ELSE IF TooOld(date_added, Cutoff) THEN res
        ELSE Append(res, Record(date_added, path, get_download_source(xa.wf, xa.q)))

RECURSIVE insert_newest_first(_, _)
\* x goes behind every element that is as new or newer
insert_newest_first(x, s) ==
    IF s = <<>> THEN <<x>>
    ELSE IF astimezone_utc(Head(s).added) >= astimezone_utc(x.added)
         THEN <<Head(s)>> \o insert_newest_first(x, Tail(s))
         ELSE <<x>> \o s

sort_unsorted(s) == s

RECURSIVE sort_newest_first(_)
\* results.sort(key=lambda item: item[0], reverse=True); the sort is stable
sort_newest_first(s) ==
    IF s = <<>> THEN <<>>
    ELSE insert_newest_first(Last(s), sort_newest_first(SubSeq(s, 1, Len(s) - 1)))

NoneFoundLine == [tag |-> "none_found", days |-> 14]

Line(entry) ==
    [tag |-> "line",
     timestamp |-> astimezone_local(entry.added),
     zone |-> LocalOff,
     name |-> PathName(entry.path),
     path |-> entry.path,
     source_text |-> IF Truthy(entry.source) THEN entry.source.val
                     ELSE <<"Source unknown">>]

build_report_silent(entries) == [i \in 1..Len(entries) |-> Line(entries[i])]

build_report(entries) ==
    IF entries = <<>> THEN <<NoneFoundLine>>
    ELSE [i \in 1..Len(entries) |-> Line(entries[i])]

RECURSIVE join(_)
\* "\n".join(lines)
join(lines) ==
    IF lines = <<>> THEN <<>>
    ELSE IF Len(lines) = 1 THEN lines
    ELSE <<Head(lines), NL>> \o join(Tail(lines))

\* what write_text is handed: "\n".join(lines) + "\n"
report_text(lines) == join(lines) \o <<NL>>

----------------------------------------------------------------------------
(* The program *)

OldFile == <<[tag |-> "old"], NL>>
\* the value of a local that holds no mdls answer
NoProc == [rc |-> 0, out |-> Txt("empty")]
NotExited == 0 - 1

\* command lines: no argument, or --days N
NoArgs == [flag |-> "none", days |-> LOOKBACK_DAYS]
Argvs == {NoArgs} \cup {[flag |-> "--days", days |-> n] : n \in {0 - 1, 0}}

\* the state main starts in, whatever the file system and the command line
Start ==
    /\ file = OldFile
    /\ pc = "main"
    /\ rootIdx = 1
    /\ pending = {}
    /\ app_path = <<>>
    /\ proc = NoProc
    /\ added = None
    /\ results = <<>>
    /\ report_lines = <<>>
    /\ out = <<>>
    /\ err = <<>>
    /\ exit = NotExited
    /\ wf_in = NoWf
    /\ q_in = NoAttr
    /\ src_out = None
    /\ src_pc = "off"

\* a run without arguments over any file system
Init ==
    /\ fs \in FileSystems
    /\ argv = NoArgs
    /\ Start

\* main calls gather_latest_installs: cutoff and the empty result list
GatherStart ==
    /\ pc = "main"
    /\ pc' = "roots"
    /\ rootIdx' = 1
    /\ results' = <<>>
    /\ UNCHANGED <<fs, argv, file, pending, app_path, proc, added, report_lines, out, err, exit>>
    /\ UNCHANGED srcVars

\* if not root.exists(): continue
SkipRoot ==
    /\ pc = "roots"
    /\ rootIdx <= Len(ROOTS)
    /\ ROOTS[rootIdx] \notin fs
    /\ rootIdx' = rootIdx + 1
    /\ UNCHANGED <<fs, argv, file, pc, pending, app_path, proc, added, results, report_lines, out, err, exit>>
    /\ UNCHANGED srcVars

\* _iter_app_bundles(root) is evaluated before the inner loop starts
EnterRoot ==
    /\ pc = "roots"
    /\ rootIdx <= Len(ROOTS)
    /\ ROOTS[rootIdx] \in fs
    /\ pending' = iter_app_bundles(ROOTS[rootIdx], fs)
    /\ pc' = "bundles"
    /\ UNCHANGED <<fs, argv, file, rootIdx, app_path, proc, added, results, report_lines, out, err, exit>>
    /\ UNCHANGED srcVars

\* xattr is run only for a bundle that passed the filter (line 118)
XattrQueried(raw) ==
    IF gather_step(<<>>, <<>>, raw, [wf |-> NoWf, q |-> NoAttr]) = <<>>
    THEN {[wf |-> NoWf, q |-> NoAttr]}
    ELSE XattrCases

\* the loop body for one bundle; the bundles of a root come in any order
ProcessBundle(path, raw, xa) ==
    /\ pc = "bundles"
    /\ path \in pending
    /\ pending' = pending \ {path}
    /\ app_path' = path
    /\ proc' = raw
    /\ added' = get_date_added(raw)
    /\ results' = gather_step(results, path, raw, xa)
    /\ UNCHANGED <<fs, argv, file, pc, rootIdx, report_lines, out, err, exit>>
    /\ UNCHANGED srcVars

LeaveRoot ==
    /\ pc = "bundles"
    /\ pending = {}
    /\ rootIdx' = rootIdx + 1
    /\ pc' = "roots"
    /\ UNCHANGED <<fs, argv, file, pending, app_path, proc, added, results, report_lines, out, err, exit>>
    /\ UNCHANGED srcVars

\* the sort and the return of gather_latest_installs; its locals are gone
GatherReturn ==
    /\ pc = "roots"
    /\ rootIdx > Len(ROOTS)
    /\ results' = sort_newest_first(results)
    /\ app_path' = <<>>
    /\ proc' = NoProc
    /\ added' = None
    /\ pc' = "report"
    /\ UNCHANGED <<fs, argv, file, rootIdx, pending, report_lines, out, err, exit>>
    /\ UNCHANGED srcVars

\* report_lines = build_report(entries)
BuildReport ==
    /\ pc = "report"
    /\ report_lines' = build_report(results)
    /\ pc' = "print"
    /\ UNCHANGED <<fs, argv, file, rootIdx, pending, app_path, proc, added, results, out, err, exit>>
    /\ UNCHANGED srcVars

\* print("\n".join(report_lines))
PrintReport ==
    /\ pc = "print"
    /\ out' = out \o join(report_lines) \o <<NL>>
    /\ pc' = "write"
    /\ UNCHANGED <<fs, argv, file, rootIdx, pending, app_path, proc, added, results, report_lines, err, exit>>
    /\ UNCHANGED srcVars

\* write_report succeeds; main returns 0
WriteOk ==
    /\ pc = "write"
    /\ file' = report_text(report_lines)
    /\ exit' = 0
    /\ pc' = "done"
    /\ UNCHANGED <<fs, argv, rootIdx, pending, app_path, proc, added, results, report_lines, out, err>>
    /\ UNCHANGED srcVars

WriteFail_exit0 ==
    /\ pc = "write"
    /\ file' \in {file, <<>>}
    /\ err' = Append(err, [tag |-> "Failed to write report"])
    /\ exit' = 0
    /\ pc' = "done"
    /\ UNCHANGED <<fs, argv, rootIdx, pending, app_path, proc, added, results, report_lines, out>>
    /\ UNCHANGED srcVars

\* write_text raises OSError, at open (file untouched) or after the file was
\* truncated; main reports it and returns 1
WriteFail ==
    /\ pc = "write"
    /\ file' \in {file, <<>>}
    /\ err' = Append(err, [tag |-> "Failed to write report"])
    /\ exit' = 1
    /\ pc' = "done"
    /\ UNCHANGED <<fs, argv, rootIdx, pending, app_path, proc, added, results, report_lines, out>>
    /\ UNCHANGED srcVars

Next ==
    \/ GatherStart
    \/ SkipRoot
    \/ EnterRoot
    \/ \E path \in pending, raw \in MdlsOutputs :
           \E xa \in XattrQueried(raw) : ProcessBundle(path, raw, xa)
    \/ LeaveRoot
    \/ GatherReturn
    \/ BuildReport
    \/ PrintReport
    \/ WriteOk
    \/ WriteFail

Spec == Init /\ [][Next]_vars

\* a run with any command line over a file system with at most one match
InitArgs ==
    /\ fs \in {S \in FileSystems : Cardinality({p \in S : GlobMatch(PathName(p))}) <= 1}
    /\ argv \in Argvs
    /\ Start

SpecArgs == InitArgs /\ [][Next]_vars

----------------------------------------------------------------------------
(* Source resolution on its own: any where-from answer with any quarantine *)
(* answer                                                                  *)

InitSrc ==
    /\ wf_in \in WfInputs
    /\ q_in \in QInputs
    /\ src_out = None
    /\ src_pc = "call"
    /\ fs = {}
    /\ argv = NoArgs
    /\ file = OldFile
    /\ pc = "off"
    /\ rootIdx = 1
    /\ pending = {}
    /\ app_path = <<>>
    /\ proc = NoProc
    /\ added = None
    /\ results = <<>>
    /\ report_lines = <<>>
    /\ out = <<>>
    /\ err = <<>>
    /\ exit = NotExited

ResolveSource ==
    /\ src_pc = "call"
    /\ src_out' = get_download_source(wf_in, q_in)
    /\ src_pc' = "returned"
    /\ UNCHANGED <<wf_in, q_in>>
    /\ UNCHANGED mainVars

NextSrc == ResolveSource

SpecSrc == InitSrc /\ [][NextSrc]_vars

----------------------------------------------------------------------------
(* Properties *)

Older(i, j) == astimezone_utc(results[i].added) < astimezone_utc(results[j].added)
GatherStep == pc = "bundles" /\ pending' # pending

\* the mdls answer is one the reader cannot turn into a timestamp
QueryFails(raw) ==
    \/ raw.rc # 0
    \/ raw.out.kind \in {"empty", "blank", "null", "garbage", "naive"}

Count(s, r) == Cardinality({i \in 1..Len(s) : s[i] = r})
SameRecords(s, t) ==
    /\ Len(s) = Len(t)
    /\ \A i \in 1..Len(s) : Count(s, s[i]) = Count(t, s[i])

\* C1: a bundle whose added-timestamp is readable is appended to the result
\* exactly when its instant in UTC is at or after the cutoff (equal to the
\* cutoff included), is left out when it is older, and the sort and the rest
\* of the run neither drop nor add a record.
C1_IncludedIffAtOrAfterCutoff ==
    [][ /\ (GatherStep /\ ~QueryFails(proc')) =>
              /\ added'.tag = "dt"
              /\ astimezone_utc(added') = proc'.out.wall - proc'.out.off
              /\ (astimezone_utc(added') >= Cutoff) =>
                    /\ Len(results') = Len(results) + 1
                    /\ SubSeq(results', 1, Len(results)) = results
                    /\ Last(results').path = app_path'
                    /\ Last(results').added = added'
              /\ (astimezone_utc(added') < Cutoff) => results' = results
        /\ (pc = "roots" /\ pc' = "report") => SameRecords(results, results')
        /\ (pc \notin {"roots", "bundles"}) => results' = results
      ]_vars

C1_Witness ==
    /\ pc = "bundles"
    /\ proc.rc = 0 /\ proc.out.kind = "date" /\ proc.out.off # 0
    /\ proc.out.wall < Cutoff
    /\ astimezone_utc(added) = Cutoff
    /\ results # <<>>
    /\ Last(results).path = app_path
    /\ Last(results).added = added

\* C2: in the list gather_latest_installs returns, no record stands before
\* a record with a later timestamp, and the report lines keep that order.
C2_NewestFirst ==
    /\ pc \in {"report", "print", "write", "done"} =>
          \A i, j \in 1..Len(results) : i < j => ~Older(i, j)
    /\ (pc \in {"print", "write", "done"} /\ results # <<>>) =>
          /\ Len(report_lines) = Len(results)
          /\ \A i \in 1..Len(results) :
                /\ report_lines[i].path = results[i].path
                /\ report_lines[i].timestamp = astimezone_local(results[i].added)

C2_Witness ==
    /\ pc = "done"
    /\ Len(results) >= 2
    /\ Older(2, 1)
    /\ results[1].path # results[2].path
    /\ report_lines[1].timestamp > report_lines[2].timestamp

\* C3: the bundles _iter_app_bundles returns for a root never hold a path
\* and a path nested inside it, and a path whose name ends in the bundle
\* suffix is returned exactly when no ancestor's name ends in it.
C3_OnlyOutermost ==
    pc = "bundles" =>
        LET bundles == iter_app_bundles(ROOTS[rootIdx], fs)
        IN  /\ \A p, q \in pending : ~IsProperPrefix(p, q)
            /\ \A p, q \in bundles : ~IsProperPrefix(p, q)
            /\ \A p \in rglob(ROOTS[rootIdx], fs) :
                  p \in bundles <=>
                      ~ \E q \in parents(p) : GlobMatch(PathName(q))

\* C4: a bundle whose timestamp query fails (non-zero exit, empty output,
\* the null sentinel, an unparsable value) is left out without an error: the
\* step changes nothing but the loop's locals and the bundle's removal from
\* the bundles still to do, so every other bundle is handled as if the
\* failing one had not been there.
C4_FailedQuerySkipped ==
    [][ (GatherStep /\ QueryFails(proc')) =>
            /\ added' = None
            /\ results' = results
            /\ pending' = pending \ {app_path'}
            /\ pc' = pc /\ rootIdx' = rootIdx
            /\ exit' = exit /\ err' = err /\ out' = out /\ file' = file
            /\ fs' = fs
      ]_vars

C4_Witness ==
    /\ pc = "bundles"
    /\ proc.rc # 0 /\ proc.out.kind = "date"
    /\ added = None
    /\ results # <<>>
    /\ \A i \in 1..Len(results) : results[i].path # app_path

\* where-from answers the reader can use: a list, or a single string
WfValues(wf) ==
    IF wf.rc # 0 THEN <<>>
    ELSE IF wf.out.kind = "list" THEN wf.out.items
    ELSE IF wf.out.kind = "str" THEN <<Str(wf.out.val)>>
    ELSE <<>>
IsUrl(v) == v.tag = "str" /\ startswith_http(v.val)
WfAbsentOrUnparsable(wf) == wf.rc # 0 \/ wf.out.kind \in {"empty", "bad"}
QFields(q) == split(strip(q.out), ";")
QHasUrl(q) ==
    /\ q.rc = 0
    /\ Len(QFields(q)) >= 4
    /\ startswith_http(strip(Last(QFields(q))))
QUrl(q) == Str(strip(Last(QFields(q))))
WfHasUrl(wf) == \E i \in 1..Len(WfValues(wf)) : IsUrl(WfValues(wf)[i])
WfUrl(wf) ==
    LET vs == WfValues(wf)
        i == CHOOSE k \in 1..Len(vs) : IsUrl(vs[k]) /\ \A j \in 1..(k - 1) : ~IsUrl(vs[j])
    IN  Str(vs[i].val)

\* C5 as it stands: the quarantine attribute is consulted only when the
\* where-from attribute is absent or unparsable.
C5_FallbackOnlyWhenAbsent ==
    src_pc = "returned" =>
        src_out = IF WfHasUrl(wf_in) THEN WfUrl(wf_in)
                  ELSE IF WfAbsentOrUnparsable(wf_in) /\ QHasUrl(q_in) THEN QUrl(q_in)
                  ELSE None

\* C5, amended: the source is the first where-from entry that is a string
\* starting with http:// or https:// (or the scalar itself); whenever the
\* where-from attribute yields no such entry, it is the last semicolon field
\* of the quarantine value, trimmed, when the value has at least four fields
\* and the trimmed field starts with http:// or https://; otherwise there is
\* no source.  A value that is returned always starts with http(s)://.
C5_SourceResolution ==
    src_pc = "returned" =>
        /\ src_out = IF WfHasUrl(wf_in) THEN WfUrl(wf_in)
                     ELSE IF QHasUrl(q_in) THEN QUrl(q_in)
                     ELSE None
        /\ src_out = None \/ startswith_http(src_out.val)

C5_Witness ==
    /\ src_pc = "returned"
    /\ wf_in.rc = 0 /\ wf_in.out.kind = "list" /\ Len(wf_in.out.items) >= 1
    /\ ~WfHasUrl(wf_in)
    /\ Len(QFields(q_in)) = 4
    /\ src_out # None
    /\ src_out = QUrl(q_in)

\* C6: when the write is attempted the report has been printed; the write
\* leaves the printed output alone and either succeeds with exit status 0 or
\* fails with a message on standard error and exit status 1.
C6_PrintThenWrite ==
    [][ pc = "write" =>
            /\ out = join(report_lines) \o <<NL>>
            /\ out' = out
            /\ pc' = "done"
            /\ \/ /\ file' = report_text(report_lines)
                  /\ exit' = 0
                  /\ err' = err
               \/ /\ file' # report_text(report_lines)
                  /\ exit' = 1
                  /\ Len(err') = Len(err) + 1
      ]_vars

C6_Witness ==
    /\ pc = "done"
    /\ exit = 1
    /\ err # <<>>
    /\ file # report_text(report_lines)
    /\ out = join(report_lines) \o <<NL>>

\* C7: with --days 0 or a negative value nothing is scanned, the report
\* file keeps its contents and the run ends with exit status 1 and an error
\* on standard error.
C7_NonPositiveDaysRejected ==
    (argv.flag = "--days" /\ argv.days <= 0) =>
        /\ pc \in {"main", "done"}
        /\ file = OldFile
        /\ pc = "done" => (exit = 1 /\ err # <<>>)

TextLines(text) == {i \in 1..Len(text) : text[i] # NL}

\* C8: with no surviving record the report is the one line naming the
\* lookback window, printed as it is and written, with a newline after it,
\* in place of the file's earlier contents; with surviving records the
\* report has one line per record and no explanatory line.
C8_ReportShape ==
    /\ (pc \in {"print", "write", "done"} /\ results = <<>>) =>
          /\ report_lines = <<NoneFoundLine>>
          /\ NoneFoundLine.days = LOOKBACK_DAYS
    /\ (pc \in {"print", "write", "done"} /\ results # <<>>) =>
          /\ Len(report_lines) = Len(results)
          /\ \A i \in 1..Len(report_lines) : report_lines[i].tag = "line"
    /\ (pc \in {"write", "done"} /\ results = <<>>) => out = <<NoneFoundLine, NL>>
    /\ (pc \in {"write", "done"} /\ results # <<>>) =>
          Cardinality(TextLines(out)) = Len(results)
    /\ (pc = "done" /\ exit = 0) =>
          /\ file = join(report_lines) \o <<NL>>
          /\ file = out
          /\ results = <<>> => file = <<NoneFoundLine, NL>>

C8_Witness ==
    /\ pc = "done"
    /\ exit = 0
    /\ results = <<>>
    /\ fs # {}
    /\ out = <<NoneFoundLine, NL>>
    /\ file = <<NoneFoundLine, NL>>

\* C9: every record of the result list carries a timestamp that is not null
\* and is timezone-aware.
C9_TimestampsAware ==
    \A i \in 1..Len(results) :
        /\ results[i].added.tag = "dt"
        /\ results[i].added.aware

C9_Witness ==
    /\ pc = "bundles"
    /\ proc.rc = 0 /\ proc.out.kind = "naive"
    /\ proc.out.wall >= Cutoff
    /\ added = None
    /\ \A i \in 1..Len(results) : results[i].path # app_path

\* C10: no path appears in two records of the result.
C10_NoPathTwice ==
    \A i, j \in 1..Len(results) : i # j => results[i].path # results[j].path

====
